---- MODULE Spec2Model ----
(***************************************************************************)
(* LightTaxes: the deterministic tax pipeline (rate tables, adjustment     *)
(* formulas, form agents, orchestrator, arithmetic verifier).              *)
(*                                                                         *)
(* Money is an integer number of cents.  Rates are integer percents.       *)
(* Python's round(x, 2) acts on a binary float: a value that is not        *)
(* exactly half a cent goes to the nearest cent, a value that is exactly   *)
(* half a cent goes up or down depending on the float's representation     *)
(* (calculate_tax(0.05, "single") = 0.01 but calculate_tax(0.15, "single") *)
(* = 0.01), so a tie is a nondeterministic choice, the parameter tie.      *)
(***************************************************************************)
EXTENDS Integers, Sequences, FiniteSets, TLC

VARIABLES
    pc,         \* position of the caller: "call" before the call, "done" after
    fn,         \* the function or method the caller invokes
    arg,        \* the arguments of the call
    ret,        \* what the call returned or raised
    agent,      \* the Form1040Agent instance: its citations list and flag
    runs,       \* number of calls made on the instance so far
    processor   \* the TaxReturnProcessor instance: results, agents' citations

vars == <<pc, fn, arg, ret, agent, runs, processor>>

-----------------------------------------------------------------------------
(* Results of a call: a returned value or a raised exception.              *)

Ret(v) == [err |-> "none", val |-> v]

Raise(e) == [err |-> e, val |-> 0]

NoRet == [err |-> "pending", val |-> 0]

-----------------------------------------------------------------------------
(* Arithmetic helpers.                                                     *)

Min2(a, b) == IF a <= b THEN a ELSE b

Max2(a, b) == IF a >= b THEN a ELSE b

SetMin(S) == CHOOSE x \in S : \A y \in S : x <= y

\* round(n / den) to an integer for n >= 0; an exact half goes by tie (0 or 1)
RoundHalf(n, den, tie) ==
    LET f == n \div den
        m == n % den
    IN  IF 2 * m < den THEN f
        ELSE IF 2 * m > den THEN f + 1
        ELSE f + tie

\* round(d * rate / 100) in cents, for d >= 0 cents and rate a percent,
\* split so that no product leaves the 32-bit range
PercentOf(d, rate, tie) ==
    LET q == d \div 100
        r == d % 100
    IN  q * rate + RoundHalf(r * rate, 100, tie)

-----------------------------------------------------------------------------
(* Filing status.                                                          *)

FilingStatusValues ==
    {"single", "married_filing_jointly", "married_filing_separately",
     "head_of_household", "qualifying_widow"}

\* strings a caller may pass where a status is expected
RawStatusStrings ==
    FilingStatusValues \cup {"Single", "Head Of Household", "widowed"}

\* str.lower() on the strings of RawStatusStrings
Lower(s) ==
    CASE s = "Single" -> "single"
      [] s = "Head Of Household" -> "head of household"
      [] OTHER -> s

\* str.replace(" ", "_") on the lowered strings
ReplaceSpaces(s) ==
    CASE s = "head of household" -> "head_of_household"
      [] OTHER -> s

\* filing_status.lower().replace(" ", "_")
NormalizeStatus(s) == ReplaceSpaces(Lower(s))

\* A status argument is a FilingStatus member or a plain string.
Member(v) == [kind |-> "member", value |-> v]

Str(v) == [kind |-> "str", value |-> v]

\* str(x): Enum.__str__ of a (str, Enum) member is "ClassName.MEMBER_NAME"
PyStr(fs) ==
    IF fs.kind = "str" THEN fs.value
    ELSE CASE fs.value = "single" -> "FilingStatus.SINGLE"
           [] fs.value = "married_filing_jointly" ->
                 "FilingStatus.MARRIED_FILING_JOINTLY"
           [] fs.value = "married_filing_separately" ->
                 "FilingStatus.MARRIED_FILING_SEPARATELY"
           [] fs.value = "head_of_household" ->
                 "FilingStatus.HEAD_OF_HOUSEHOLD"
           [] OTHER -> "FilingStatus.QUALIFYING_WIDOW"

-----------------------------------------------------------------------------
(* tools/tax_table.py                                                      *)

\* float('inf'), the upper bound of the last bracket
Inf == -1

\* faulty variant of Below: closed intervals, the edge also in the lower
\* bracket
BelowOrEqual(x, hi) == hi = Inf \/ x <= hi

\* "taxable_income < max_income"
Below(x, hi) == hi = Inf \/ x < hi

\* faulty variant of Bracket: the cumulative tax of the lower brackets lost
BracketNoBase(lo, hi, rate, base) ==
    [min_income |-> lo, max_income |-> hi, rate |-> rate, base_tax |-> 0]

\* one tuple (min_income, max_income, rate, base_tax) of the table
Bracket(lo, hi, rate, base) ==
    [min_income |-> lo, max_income |-> hi, rate |-> rate, base_tax |-> base]

TAX_BRACKETS_2024 ==
    ("single" :> << Bracket(0, 1160000, 10, 0),
         Bracket(1160000, 4715000, 12, 116000),
         Bracket(4715000, 10052500, 22, 542600),
         Bracket(10052500, 19195000, 24, 1716850),
         Bracket(19195000, 24372500, 32, 3911050),
         Bracket(24372500, 60935000, 35, 5567850),
         Bracket(60935000, Inf, 37, 18364725) >>) @@
    ("married_filing_jointly" :> << Bracket(0, 2320000, 10, 0),
         Bracket(2320000, 9430000, 12, 232000),
         Bracket(9430000, 20105000, 22, 1085200),
         Bracket(20105000, 38390000, 24, 3433700),
         Bracket(38390000, 48745000, 32, 7822100),
         Bracket(48745000, 73120000, 35, 11135700),
         Bracket(73120000, Inf, 37, 19666950) >>) @@
    ("married_filing_separately" :> << Bracket(0, 1160000, 10, 0),
         Bracket(1160000, 4715000, 12, 116000),
         Bracket(4715000, 10052500, 22, 542600),
         Bracket(10052500, 19195000, 24, 1716850),
         Bracket(19195000, 24372500, 32, 3911050),
         Bracket(24372500, 36560000, 35, 5567850),
         Bracket(36560000, Inf, 37, 9833475) >>) @@
    ("head_of_household" :> << Bracket(0, 1655000, 10, 0),
         Bracket(1655000, 6310000, 12, 165500),
         Bracket(6310000, 10050000, 22, 724100),
         Bracket(10050000, 19195000, 24, 1546900),
         Bracket(19195000, 24370000, 32, 3741700),
         Bracket(24370000, 60935000, 35, 5397700),
         Bracket(60935000, Inf, 37, 18195450) >>) @@
    ("qualifying_widow" :> << Bracket(0, 2320000, 10, 0),
         Bracket(2320000, 9430000, 12, 232000),
         Bracket(9430000, 20105000, 22, 1085200),
         Bracket(20105000, 38390000, 24, 3433700),
         Bracket(38390000, 48745000, 32, 7822100),
         Bracket(48745000, 73120000, 35, 11135700),
         Bracket(73120000, Inf, 37, 19666950) >>)

\* faulty variant of MatchingBrackets: min < income, the edge in no bracket
MatchingBracketsStrict(brackets, taxable_income) ==
    {i \in 1..Len(brackets) :
        /\ brackets[i].min_income < taxable_income
        /\ Below(taxable_income, brackets[i].max_income)}

\* the for loop of calculate_tax: the first bracket with min <= income < max
MatchingBrackets(brackets, taxable_income) ==
    {i \in 1..Len(brackets) :
        /\ brackets[i].min_income <= taxable_income
        /\ Below(taxable_income, brackets[i].max_income)}

calculate_tax(taxable_income, filing_status, tie) ==
    IF taxable_income <= 0 THEN Ret(0)
    ELSE LET status == NormalizeStatus(filing_status) IN
         IF status \notin DOMAIN TAX_BRACKETS_2024
         THEN Raise("ValueError: Invalid filing status")
         ELSE LET brackets == TAX_BRACKETS_2024[status]
                  hits == MatchingBrackets(brackets, taxable_income)
              IN  IF hits = {}
                  THEN Raise("ValueError: No tax bracket found")
                  ELSE LET b == brackets[SetMin(hits)]
                       IN  Ret(b.base_tax
                               + PercentOf(taxable_income - b.min_income,
                                           b.rate, tie))

-----------------------------------------------------------------------------
(* tools/standard_deduction.py                                             *)

STANDARD_DEDUCTION_2024 ==
    ("single" :> 1460000) @@
    ("married_filing_jointly" :> 2920000) @@
    ("married_filing_separately" :> 1460000) @@
    ("head_of_household" :> 2190000) @@
    ("qualifying_widow" :> 2920000)

ADDITIONAL_DEDUCTION_2024 ==
    ("single" :> 195000) @@
    ("married_filing_jointly" :> 155000) @@
    ("married_filing_separately" :> 155000) @@
    ("head_of_household" :> 195000) @@
    ("qualifying_widow" :> 155000)

\* Optional[int] = None
None == -1

\* "if age and age >= 65": None and 0 are falsy
AgeQualifies(age) == age # None /\ age # 0 /\ age >= 65

\* faulty variant of SpouseAdditionsApply: the spouse counted for every
\* status
SpouseAdditionsAlways(status) == TRUE

\* if status in ["married_filing_jointly", "qualifying_widow"]
SpouseAdditionsApply(status) ==
    status \in {"married_filing_jointly", "qualifying_widow"}

get_standard_deduction(filing_status, taxpayer_age, taxpayer_blind, spouse_age, spouse_blind) ==
    LET status == NormalizeStatus(filing_status) IN
    IF status \notin DOMAIN STANDARD_DEDUCTION_2024
    THEN Raise("ValueError: Invalid filing status")
    ELSE LET base == STANDARD_DEDUCTION_2024[status]
             additional == ADDITIONAL_DEDUCTION_2024[status]
             d1 == base + (IF AgeQualifies(taxpayer_age) THEN additional ELSE 0)
             d2 == d1 + (IF taxpayer_blind THEN additional ELSE 0)
             joint == SpouseAdditionsApply(status)
             d3 == d2 + (IF joint /\ AgeQualifies(spouse_age)
                         THEN additional ELSE 0)
             d4 == d3 + (IF joint /\ spouse_blind THEN additional ELSE 0)
         IN  Ret(d4)

-----------------------------------------------------------------------------
(* core/types.py: the declared fields of the pydantic models.  A pydantic  *)
(* BaseModel drops keyword arguments that are not declared fields, raises  *)
(* AttributeError when an undeclared attribute is read and raises          *)
(* ValueError when an undeclared attribute is assigned.                    *)

TaxpayerInfoFields ==
    {"name", "ssn", "dob", "age", "blind", "spouse_name", "spouse_ssn",
     "spouse_dob", "spouse_age", "spouse_blind"}

TaxInputsFields ==
    {"filing_status", "taxpayer", "dependents", "w2", "income_1099_int",
     "income_1099_div", "business_income"}

\* Form1040Outputs(): every line 0.0, no citations
Form1040Outputs ==
    [line_1z |-> 0, line_2b |-> 0, line_3b |-> 0, line_8 |-> 0, line_9 |-> 0,
     line_10 |-> 0, line_11 |-> 0, line_12 |-> 0, line_15 |-> 0,
     line_16 |-> 0, line_19 |-> 0, line_22 |-> 0, line_23 |-> 0,
     line_24 |-> 0, line_25a |-> 0, line_33 |-> 0, line_34 |-> 0,
     line_37 |-> 0, citations |-> <<>>]

-----------------------------------------------------------------------------
(* core/form_agent.py                                                      *)

\* FormAgent.__init__: an empty citations list
FormAgent(enable_citations) ==
    [citations |-> <<>>, enable_citations |-> enable_citations]

\* FormAgent.cite on the running state st = [o, c, en, err]: o the outputs
\* under construction, c the agent's citations list, en enable_citations
cite(st, line, source) ==
    IF st.en
    THEN [st EXCEPT !.c = Append(@, [line |-> line, source |-> source])]
    ELSE st

\* {c.line: c.source for c in self.citations}: the last entry of a line wins
CitationDict(cits) ==
    LET lines == {cits[i].line : i \in 1..Len(cits)}
        last(l) == CHOOSE i \in 1..Len(cits) :
                      /\ cits[i].line = l
                      /\ \A j \in 1..Len(cits) : cits[j].line = l => j <= i
    IN  [l \in lines |-> cits[last(l)].source]

-----------------------------------------------------------------------------
(* agents/form_1040_agent.py                                               *)

Line12Source(status) ==
    CASE status = "single" -> "IRS Standard Deduction for single"
      [] status = "married_filing_jointly" ->
            "IRS Standard Deduction for married_filing_jointly"
      [] status = "married_filing_separately" ->
            "IRS Standard Deduction for married_filing_separately"
      [] status = "head_of_household" ->
            "IRS Standard Deduction for head_of_household"
      [] OTHER -> "IRS Standard Deduction for qualifying_widow"

calculate_income(inputs, st) ==
    LET s1 == cite([st EXCEPT !.o.line_1z = inputs.wages],
                   "Line 1z", "Form W-2, Box 1")
        s2 == [s1 EXCEPT !.o.line_2b = inputs.interest]
        s3 == IF s2.o.line_2b > 0
              THEN cite(s2, "Line 2b", "Schedule B, Line 4 or Form 1099-INT")
              ELSE s2
        s4 == [s3 EXCEPT !.o.line_3b = inputs.dividends]
        s5 == IF s4.o.line_3b > 0
              THEN cite(s4, "Line 3b", "Schedule B, Line 6 or Form 1099-DIV")
              ELSE s4
        s6 == [s5 EXCEPT !.o.line_8 = inputs.schedule_1_additional_income]
        s7 == IF s6.o.line_8 > 0
              THEN cite(s6, "Line 8", "Schedule 1, Line 10")
              ELSE s6
        s8 == [s7 EXCEPT !.o.line_9 = s7.o.line_1z + s7.o.line_2b
                                      + s7.o.line_3b + s7.o.line_8]
    IN  cite(s8, "Line 9", "Form 1040 Instructions, Line 9")

calculate_adjustments(inputs, st) ==
    LET s1 == [st EXCEPT !.o.line_10 = inputs.schedule_1_adjustments]
    IN  IF s1.o.line_10 > 0
        THEN cite(s1, "Line 10", "Schedule 1, Line 26")
        ELSE s1

calculate_agi(inputs, st) ==
    cite([st EXCEPT !.o.line_11 = st.o.line_9 - st.o.line_10],
         "Line 11", "Form 1040 Instructions, Line 11 - Adjusted Gross Income")

\* filing_status is a FilingStatus member; .value is its string
calculate_deductions(inputs, st) ==
    LET d == get_standard_deduction(inputs.filing_status,
                                    inputs.taxpayer.age,
                                    inputs.taxpayer.blind,
                                    inputs.taxpayer.spouse_age,
                                    inputs.taxpayer.spouse_blind)
    IN  IF d.err # "none" THEN [st EXCEPT !.err = d.err]
        ELSE cite([st EXCEPT !.o.line_12 = d.val],
                  "Line 12", Line12Source(inputs.filing_status))

\* faulty variant of calculate_taxable_income: no floor at zero
calculate_taxable_income_unclamped(inputs, st) ==
    cite([st EXCEPT !.o.line_15 = st.o.line_11 - st.o.line_12],
         "Line 15", "Form 1040 Instructions, Line 15 - Taxable Income")

calculate_taxable_income(inputs, st) ==
    cite([st EXCEPT !.o.line_15 = Max2(0, st.o.line_11 - st.o.line_12)],
         "Line 15", "Form 1040 Instructions, Line 15 - Taxable Income")

calculate_tax_line(inputs, st, tie) ==
    LET t == calculate_tax(st.o.line_15, inputs.filing_status, tie)
    IN  IF t.err # "none" THEN [st EXCEPT !.err = t.err]
        ELSE cite([st EXCEPT !.o.line_16 = t.val],
                  "Line 16", "2024 Tax Computation Worksheet / Tax Tables")

NumQualifyingChildren(dependents) ==
    Cardinality({i \in 1..Len(dependents) : dependents[i].qualifying_child})

calculate_credits(inputs, st) ==
    LET n == NumQualifyingChildren(inputs.dependents)
    IN  IF n > 0
        THEN cite([st EXCEPT !.o.line_19 = Min2(n * 200000, st.o.line_16)],
                  "Line 19", "Schedule 8812 - Child Tax Credit")
        ELSE st

\* pass
calculate_other_taxes(inputs, st) == st

calculate_total_tax(inputs, st) ==
    cite([st EXCEPT !.o.line_24 = st.o.line_16 - st.o.line_19 + st.o.line_23],
         "Line 24", "Form 1040 Instructions, Line 24 - Total Tax")

\* sum(w2.federal_withholding for w2 in inputs.taxpayer.w2)
\*     if hasattr(inputs.taxpayer, 'w2') else 0
calculate_payments(inputs, st) ==
    LET total_withholding ==
            IF "w2" \in TaxpayerInfoFields
            THEN inputs.taxpayer.w2_withholding
            ELSE 0
        s1 == [st EXCEPT !.o.line_25a = total_withholding]
        s2 == IF s1.o.line_25a > 0
              THEN cite(s1, "Line 25a", "Form W-2, Box 2")
              ELSE s1
    IN  cite([s2 EXCEPT !.o.line_33 = s2.o.line_25a],
             "Line 33", "Form 1040 Instructions, Line 33 - Total Payments")

calculate_refund_or_owed(inputs, st) ==
    IF st.o.line_33 > st.o.line_24
    THEN cite([st EXCEPT !.o.line_34 = st.o.line_33 - st.o.line_24,
                         !.o.line_37 = 0],
              "Line 34", "Form 1040 Instructions, Line 34 - Refund")
    ELSE cite([st EXCEPT !.o.line_34 = 0,
                         !.o.line_37 = st.o.line_24 - st.o.line_33],
              "Line 37", "Form 1040 Instructions, Line 37 - Amount You Owe")

\* Form1040Agent.process on the agent ag: [err, out, citations], where
\* citations is the agent's list after the call (also when it raised)
Form1040AgentProcess(ag, inputs, tie) ==
    LET s0  == [o |-> Form1040Outputs, c |-> ag.citations,
                en |-> ag.enable_citations, err |-> "none"]
        s1  == calculate_income(inputs, s0)
        s2  == calculate_adjustments(inputs, s1)
        s3  == calculate_agi(inputs, s2)
        s4  == calculate_deductions(inputs, s3)
        s5  == calculate_taxable_income(inputs, s4)
        s6  == calculate_tax_line(inputs, s5, tie)
        s7  == calculate_credits(inputs, s6)
        s8  == calculate_other_taxes(inputs, s7)
        s9  == calculate_total_tax(inputs, s8)
        s10 == calculate_payments(inputs, s9)
        s11 == calculate_refund_or_owed(inputs, s10)
    IN  IF s4.err # "none"
        THEN [err |-> s4.err, out |-> Form1040Outputs, citations |-> s3.c]
        ELSE IF s6.err # "none"
        THEN [err |-> s6.err, out |-> Form1040Outputs, citations |-> s5.c]
        ELSE [err |-> "none",
              out |-> [s11.o EXCEPT !.citations = CitationDict(s11.c)],
              citations |-> s11.c]

-----------------------------------------------------------------------------
(* Exact arithmetic on large amounts.                                      *)

RECURSIVE SumSeq(_)
SumSeq(q) == IF q = <<>> THEN 0 ELSE Head(q) + SumSeq(Tail(q))

\* <<quotient, remainder>> of x * m by d for 0 <= x < d, by doubling, so that
\* no intermediate value exceeds 3 * d
RECURSIVE MulDivSmall(_, _, _)
MulDivSmall(x, m, d) ==
    IF m = 0 THEN <<0, 0>>
    ELSE LET h == MulDivSmall(x, m \div 2, d)
             t == 2 * h[2] + (m % 2) * x
         IN  <<2 * h[1] + t \div d, t % d>>

\* round(x * m / d) for x, m >= 0; an exact half goes by tie
MulDivRound(x, m, d, tie) ==
    LET qr == MulDivSmall(x % d, m, d)
    IN  (x \div d) * m + qr[1] + RoundHalf(qr[2], d, tie)

-----------------------------------------------------------------------------
(* agents/schedule_b_agent.py, schedule_c_agent.py, schedule_se_agent.py   *)

\* an optional schedule output that is None
NoOutputs == [present |-> FALSE]

InterestAmounts(forms) == [i \in 1..Len(forms) |-> forms[i].interest_income]

DividendAmounts(forms) == [i \in 1..Len(forms) |-> forms[i].ordinary_dividends]

\* ScheduleBAgent.process: [out, citations]
ScheduleBAgentProcess(ag, inputs) ==
    LET s0 == [o |-> [present |-> TRUE, total_interest |-> 0,
                      total_dividends |-> 0, citations |-> <<>>],
               c |-> ag.citations, en |-> ag.enable_citations, err |-> "none"]
        s1 == IF inputs.interest_income # <<>>
              THEN cite([s0 EXCEPT !.o.total_interest =
                            SumSeq(InterestAmounts(inputs.interest_income))],
                        "Line 4", "Form 1099-INT aggregation")
              ELSE s0
        s2 == IF inputs.dividend_income # <<>>
              THEN cite([s1 EXCEPT !.o.total_dividends =
                            SumSeq(DividendAmounts(inputs.dividend_income))],
                        "Line 6", "Form 1099-DIV aggregation")
              ELSE s1
    IN  [out |-> [s2.o EXCEPT !.citations = CitationDict(s2.c)],
         citations |-> s2.c]

\* BusinessIncome(): every amount 0.0, no other expenses
BusinessIncomeDefaults ==
    [gross_receipts |-> 0, returns_allowances |-> 0, cost_of_goods_sold |-> 0,
     other_income |-> 0, advertising |-> 0, car_truck_expenses |-> 0,
     commissions_fees |-> 0, contract_labor |-> 0, depreciation |-> 0,
     insurance |-> 0, interest |-> 0, legal_professional |-> 0,
     office_expense |-> 0, rent_lease |-> 0, repairs_maintenance |-> 0,
     supplies |-> 0, taxes_licenses |-> 0, travel |-> 0, meals |-> 0,
     utilities |-> 0, wages |-> 0, other_expenses |-> <<>>]

\* faulty variant of DeductibleMeals: meals deducted in full
FullMeals(meals) == meals

\* business.meals * 0.5
DeductibleMeals(meals) == meals \div 2

\* ScheduleCAgent.process: [out, citations].  meals * 0.5 is exact for the
\* even amounts of cents the inputs are drawn from.
ScheduleCAgentProcess(ag, inputs) ==
    LET business == inputs.business
        gross_income == business.gross_receipts - business.returns_allowances
                        - business.cost_of_goods_sold + business.other_income
        total_expenses ==
            business.advertising + business.car_truck_expenses
            + business.commissions_fees + business.contract_labor
            + business.depreciation + business.insurance + business.interest
            + business.legal_professional + business.office_expense
            + business.rent_lease + business.repairs_maintenance
            + business.supplies + business.taxes_licenses + business.travel
            + DeductibleMeals(business.meals) + business.utilities
            + business.wages
            + SumSeq(business.other_expenses)
        net_profit_loss == gross_income - total_expenses
        s0 == [o |-> [present |-> TRUE, gross_income |-> gross_income,
                      total_expenses |-> total_expenses,
                      net_profit_loss |-> net_profit_loss,
                      citations |-> <<>>],
               c |-> ag.citations, en |-> ag.enable_citations, err |-> "none"]
        s1 == cite(s0, "Line 7", "Schedule C Instructions, Part I")
        s2 == cite(s1, "Line 28", "Schedule C Instructions, Part II")
        s3 == cite(s2, "Line 31", "Schedule C Instructions, Line 31")
    IN  [out |-> [s3.o EXCEPT !.citations = CitationDict(s3.c)],
         citations |-> s3.c]

\* net profit (cents) up to which net_profit * 0.9235 <= 168600.00
WageBaseProfit == 18256632

\* SOCIAL_SECURITY_WAGE_BASE_2024 * SOCIAL_SECURITY_RATE = 20906.40
WageBaseTax == 2090640

\* net_profit * SE_TAX_RATE, which the code does not round: whole cents and
\* the remaining 1/10000ths of a cent
NetEarnings(net_profit) ==
    LET qr == MulDivSmall(net_profit % 10000, 9235, 10000)
    IN  [cents |-> (net_profit \div 10000) * 9235 + qr[1], frac |-> qr[2]]

\* faulty variant of AtOrBelowSEThreshold: exactly $400 is taxed
BelowSEThreshold(net_profit) == net_profit < 40000

\* if net_profit <= 400
AtOrBelowSEThreshold(net_profit) == net_profit <= 40000

\* ScheduleSEAgent.process: [out, citations].
\* ts = [tax, ded]: the ties of the two round(.., 2) calls.
ScheduleSEAgentProcess(ag, inputs, ts) ==
    LET net_profit == inputs.net_profit_loss
        s0 == [o |-> [present |-> TRUE,
                      net_earnings |-> [cents |-> 0, frac |-> 0],
                      self_employment_tax |-> 0, deduction |-> 0,
                      citations |-> <<>>],
               c |-> ag.citations, en |-> ag.enable_citations, err |-> "none"]
    IN  IF AtOrBelowSEThreshold(net_profit)
        THEN [out |-> s0.o,
              citations |-> cite(s0, "Schedule SE",
                                 "IRS Instructions: Net earnings < $400").c]
        ELSE LET capped == net_profit > WageBaseProfit
                 \* ss_tax + medicare_tax, rounded to the cent
                 se_tax == IF capped
                           THEN WageBaseTax
                                + MulDivRound(net_profit, 267815, 10000000,
                                              ts.tax)
                           ELSE MulDivRound(net_profit, 1412955, 10000000,
                                            ts.tax)
                 \* round(self_employment_tax / 2, 2) of the unrounded tax
                 deduction == IF capped
                              THEN (WageBaseTax \div 2)
                                   + MulDivRound(net_profit, 267815, 20000000,
                                                 ts.ded)
                              ELSE MulDivRound(net_profit, 1412955, 20000000,
                                               ts.ded)
                 s1 == cite(s0, "Line 4", "Schedule SE Instructions, Line 4")
                 s2 == cite(s1, "Line 12", "Schedule SE Instructions, Line 12")
                 s3 == cite(s2, "Line 13",
                            "Schedule SE Instructions, Line 13 - Deduction")
                 o  == [s3.o EXCEPT !.net_earnings = NetEarnings(net_profit),
                                    !.self_employment_tax = se_tax,
                                    !.deduction = deduction,
                                    !.citations = CitationDict(s3.c)]
             IN  [out |-> o, citations |-> s3.c]

-----------------------------------------------------------------------------
(* tools/adjustments.py                                                    *)

calculate_educator_expense(amount_paid, is_eligible, spouse_amount_paid, spouse_eligible, filing_status) ==
    LET d1 == IF is_eligible THEN Min2(amount_paid, 30000) ELSE 0
    IN  IF PyStr(filing_status) = "married_filing_jointly" /\ spouse_eligible
        THEN d1 + Min2(spouse_amount_paid, 30000)
        ELSE d1

calculate_student_loan_interest(interest_paid, magi, filing_status, tie) ==
    LET deduction == Min2(interest_paid, 250000)
        joint == PyStr(filing_status) = "married_filing_jointly"
        start_phase == IF joint THEN 16500000 ELSE 8000000
        end_phase == IF joint THEN 19500000 ELSE 9500000
    IN  IF magi <= start_phase THEN deduction
        ELSE IF magi >= end_phase THEN 0
        ELSE IF deduction >= 0
             THEN MulDivRound(deduction, end_phase - magi,
                              end_phase - start_phase, tie)
             ELSE -MulDivRound(-deduction, end_phase - magi,
                               end_phase - start_phase, 1 - tie)

calculate_excess_business_loss(net_business_loss, filing_status) ==
    IF net_business_loss <= 0 THEN 0
    ELSE LET threshold ==
                 IF PyStr(filing_status) = "married_filing_jointly"
                 THEN 61000000 ELSE 30500000
         IN  IF net_business_loss > threshold
             THEN net_business_loss - threshold
             ELSE 0

-----------------------------------------------------------------------------
(* verifiers/arithmetic_verifier.py                                        *)

Abs(x) == IF x < 0 THEN -x ELSE x

\* faulty variant of Differs: a tolerance of one dollar
DiffersByADollar(a, b, fuzz) == Abs(a - b) > 100

\* abs(a - b) > 0.01 on floats: a difference of exactly one cent compares
\* either way, by the floats' representation (fuzz)
Differs(a, b, fuzz) == Abs(a - b) > 1 \/ (Abs(a - b) = 1 /\ fuzz)

VerificationError(line, error_type, severity, expected, actual) ==
    [form |-> "1040", line |-> line, error_type |-> error_type,
     severity |-> severity, expected |-> expected, actual |-> actual]

\* how each of the six tolerance comparisons falls at exactly one cent
Fuzzes ==
    [line_9 : BOOLEAN, line_11 : BOOLEAN, line_15 : BOOLEAN,
     line_24 : BOOLEAN, line_34 : BOOLEAN, line_37 : BOOLEAN]

\* faulty variant of Passed: a warning fails the verification
PassedWithoutWarnings(errors, warnings) ==
    Len(errors) = 0 /\ Len(warnings) = 0

\* passed=len(errors) == 0
Passed(errors, warnings) == Len(errors) = 0

\* faulty variant of OutputsAfterVerify: the verifier repairs line_15
OutputsRepaired(outputs) ==
    [outputs EXCEPT !.line_15 = Max2(0, outputs.line_15)]

\* the outputs object after verify_form_1040: it is only read
OutputsAfterVerify(outputs) == outputs

verify_form_1040(outputs, fuzz) ==
    LET expected_line_9 == outputs.line_1z + outputs.line_2b
                           + outputs.line_3b + outputs.line_8
        e1 == IF Differs(outputs.line_9, expected_line_9,
                         fuzz.line_9)
              THEN <<VerificationError("Line 9", "arithmetic", "error",
                                       expected_line_9, outputs.line_9)>>
              ELSE <<>>
        expected_line_11 == outputs.line_9 - outputs.line_10
        e2 == IF Differs(outputs.line_11, expected_line_11,
                         fuzz.line_11)
              THEN <<VerificationError("Line 11", "arithmetic", "error",
                                       expected_line_11, outputs.line_11)>>
              ELSE <<>>
        expected_line_15 == Max2(0, outputs.line_11 - outputs.line_12)
        e3 == IF Differs(outputs.line_15, expected_line_15,
                         fuzz.line_15)
              THEN <<VerificationError("Line 15", "arithmetic", "error",
                                       expected_line_15, outputs.line_15)>>
              ELSE <<>>
        e4 == IF outputs.line_15 < 0
              THEN <<VerificationError("Line 15", "logic", "critical",
                                       0, outputs.line_15)>>
              ELSE <<>>
        expected_line_24 == outputs.line_16 - outputs.line_19
                            + outputs.line_23
        e5 == IF Differs(outputs.line_24, expected_line_24,
                         fuzz.line_24)
              THEN <<VerificationError("Line 24", "arithmetic", "error",
                                       expected_line_24, outputs.line_24)>>
              ELSE <<>>
        refund == outputs.line_33 > outputs.line_24
        expected_refund == outputs.line_33 - outputs.line_24
        expected_owed == outputs.line_24 - outputs.line_33
        e6 == IF refund
              THEN (IF Differs(outputs.line_34, expected_refund,
                         fuzz.line_34)
                    THEN <<VerificationError("Line 34", "arithmetic", "error",
                                             expected_refund,
                                             outputs.line_34)>>
                    ELSE <<>>)
                   \o (IF outputs.line_37 # 0
                       THEN <<VerificationError("Line 37", "logic", "error",
                                                0, outputs.line_37)>>
                       ELSE <<>>)
              ELSE (IF Differs(outputs.line_37, expected_owed,
                         fuzz.line_37)
                    THEN <<VerificationError("Line 37", "arithmetic", "error",
                                             expected_owed,
                                             outputs.line_37)>>
                    ELSE <<>>)
                   \o (IF outputs.line_34 # 0
                       THEN <<VerificationError("Line 34", "logic", "error",
                                                0, outputs.line_34)>>
                       ELSE <<>>)
        errors == e1 \o e2 \o e3 \o e4 \o e5 \o e6
        w1 == IF outputs.line_11 > 100000000 THEN <<"High AGI">> ELSE <<>>
        w2 == IF outputs.line_16 = 0 /\ outputs.line_15 > 0
              THEN <<"Tax is $0 despite positive taxable income">>
              ELSE <<>>
    IN  [ran |-> TRUE, passed |-> Passed(errors, w1 \o w2),
         errors |-> errors, warnings |-> w1 \o w2]

-----------------------------------------------------------------------------
(* main.py: TaxReturnProcessor                                             *)

\* a key that the input dict does not hold
Absent == "<absent>"

\* TaxReturnProcessor.__init__ and _initialize_agents: results = {} and one
\* agent per form, kept for the life of the processor
TaxReturnProcessor ==
    [results |-> [stored |-> FALSE],
     agents |-> [f1040 |-> FormAgent(TRUE), schedule_b |-> FormAgent(TRUE),
                 schedule_c |-> FormAgent(TRUE),
                 schedule_se |-> FormAgent(TRUE)]]

\* filing_status_map.get(data.get("filing_status", "single").lower(),
\*                       FilingStatus.SINGLE)
ParseFilingStatus(data) ==
    LET raw == IF data.filing_status = Absent THEN "single"
               ELSE data.filing_status
        key == Lower(raw)
    IN  IF key \in FilingStatusValues THEN key ELSE "single"

\* BusinessIncome(...) from the keys _parse_inputs reads
ParseBusinessIncome(biz_data) ==
    [BusinessIncomeDefaults EXCEPT
        !.gross_receipts = biz_data.gross_receipts,
        !.advertising = biz_data.advertising,
        !.office_expense = biz_data.office_expense,
        !.supplies = biz_data.supplies,
        !.utilities = biz_data.utilities,
        !.meals = biz_data.meals,
        !.legal_professional = biz_data.legal_professional,
        !.other_expenses = biz_data.other_expenses]

\* _parse_inputs.  taxpayer.is_eligible_educator = ... assigns an attribute
\* TaxpayerInfo does not declare, which pydantic refuses with a ValueError.
\* TaxInputs(...) keeps the declared fields only; the record below carries
\* the three undeclared keyword arguments so that a read of them can be
\* decided by TaxInputsFields where it happens.
ParseInputs(data) ==
    LET filing_status == ParseFilingStatus(data)
        taxpayer == [age |-> data.age, blind |-> FALSE, spouse_age |-> None,
                     spouse_blind |-> FALSE,
                     is_eligible_educator |-> data.is_taxpayer_educator,
                     spouse_eligible_educator |-> data.is_spouse_educator]
        business_income ==
            IF data.has_business_income
            THEN [present |-> TRUE,
                  value |-> ParseBusinessIncome(data.business_income)]
            ELSE [present |-> FALSE, value |-> BusinessIncomeDefaults]
    IN  IF "is_eligible_educator" \notin TaxpayerInfoFields
        THEN Raise("ValueError: TaxpayerInfo has no field is_eligible_educator")
        ELSE IF "spouse_eligible_educator" \notin TaxpayerInfoFields
        THEN Raise("ValueError: TaxpayerInfo has no field spouse_eligible_educator")
        ELSE Ret([filing_status |-> filing_status,
                  taxpayer |-> taxpayer,
                  dependents |-> data.dependents,
                  w2 |-> data.w2,
                  income_1099_int |-> data.income_1099_int,
                  income_1099_div |-> <<>>,
                  business_income |-> business_income,
                  educator_expenses_paid |-> data.educator_expenses_paid,
                  spouse_educator_expenses_paid |->
                      data.spouse_educator_expenses_paid,
                  student_loan_interest_paid |->
                      data.student_loan_interest_paid])

WagesOf(w2) == [i \in 1..Len(w2) |-> w2[i].wages]

WithholdingOf(w2) == [i \in 1..Len(w2) |-> w2[i].federal_withholding]

\* what a call of process_tax_return leaves: the exception or the returned
\* outputs, the agents and the stored results after it, the units it ran
Outcome(err, out, agents, results, units) ==
    [err |-> err, out |-> out, agents |-> agents, results |-> results,
     units |-> units]

\* lines 190-206: line 23 and 24 from the self-employment tax, the
\* withholding, and the refund/owed pair again
ApplyOtherTaxesAndWithholding(o, se_tax, total_withholding) ==
    LET o1 == IF se_tax > 0
              THEN [o EXCEPT !.line_23 = se_tax,
                             !.line_24 = o.line_16 - o.line_19 + se_tax]
              ELSE o
        o2 == [o1 EXCEPT !.line_25a = total_withholding,
                         !.line_33 = total_withholding]
    IN  IF o2.line_33 > o2.line_24
        THEN [o2 EXCEPT !.line_34 = o2.line_33 - o2.line_24, !.line_37 = 0]
        ELSE [o2 EXCEPT !.line_34 = 0, !.line_37 = o2.line_24 - o2.line_33]

\* Step 1, lines 78-87: Schedule B runs when there is a 1099-INT or 1099-DIV
RunScheduleB(P, tax_inputs) ==
    IF tax_inputs.income_1099_int # <<>> \/ tax_inputs.income_1099_div # <<>>
    THEN ScheduleBAgentProcess(P.agents.schedule_b,
             [interest_income |-> tax_inputs.income_1099_int,
              dividend_income |-> tax_inputs.income_1099_div])
    ELSE [out |-> NoOutputs, citations |-> P.agents.schedule_b.citations]

\* Step 2, lines 89-98: Schedule C runs when there is business income
RunScheduleC(P, tax_inputs) ==
    IF tax_inputs.business_income.present
    THEN ScheduleCAgentProcess(P.agents.schedule_c,
             [business |-> tax_inputs.business_income.value,
              filing_status |-> tax_inputs.filing_status])
    ELSE [out |-> NoOutputs, citations |-> P.agents.schedule_c.citations]

\* Step 3, lines 100-110: Schedule SE runs when Schedule C ran with a profit
RunScheduleSE(P, tax_inputs, c, ts) ==
    IF c.out.present /\ c.out.net_profit_loss > 0
    THEN ScheduleSEAgentProcess(P.agents.schedule_se,
             [net_profit_loss |-> c.out.net_profit_loss,
              filing_status |-> tax_inputs.filing_status],
             [tax |-> ts.se, ded |-> ts.ded])
    ELSE [out |-> NoOutputs, citations |-> P.agents.schedule_se.citations]

\* the units a call ran before Step 4, in order
UnitsRun(b, c, se) ==
    (IF b.out.present THEN <<"schedule_b">> ELSE <<>>)
    \o (IF c.out.present THEN <<"schedule_c">> ELSE <<>>)
    \o (IF se.out.present THEN <<"schedule_se">> ELSE <<>>)

\* lines 112-185: the Form 1040 inputs from the schedules and the three
\* adjustment functions
BuildForm1040Inputs(tax_inputs, b, c, se, tie) ==
    LET status == tax_inputs.filing_status
        total_wages == SumSeq(WagesOf(tax_inputs.w2))
        total_interest == IF b.out.present THEN b.out.total_interest ELSE 0
        total_dividends == IF b.out.present THEN b.out.total_dividends ELSE 0
        net_biz == IF c.out.present THEN c.out.net_profit_loss ELSE 0
        ebl_addback == IF net_biz < 0
                       THEN calculate_excess_business_loss(-net_biz,
                                                           Member(status))
                       ELSE 0
        additional_income == net_biz + Max2(ebl_addback, 0)
        se_deduction == IF se.out.present THEN se.out.deduction ELSE 0
        educator_deduction ==
            calculate_educator_expense(
                tax_inputs.educator_expenses_paid,
                tax_inputs.taxpayer.is_eligible_educator,
                tax_inputs.spouse_educator_expenses_paid,
                tax_inputs.taxpayer.spouse_eligible_educator,
                Member(status))
        adjustments1 == se_deduction + Max2(educator_deduction, 0)
        temp_agi == total_wages + total_interest + total_dividends
                    + additional_income - adjustments1
        sli_deduction ==
            calculate_student_loan_interest(
                tax_inputs.student_loan_interest_paid, temp_agi,
                Member(status), tie)
    IN  [filing_status |-> status,
         taxpayer |-> tax_inputs.taxpayer,
         dependents |-> tax_inputs.dependents,
         wages |-> total_wages,
         interest |-> total_interest,
         dividends |-> total_dividends,
         schedule_1_additional_income |-> additional_income,
         schedule_1_adjustments |-> adjustments1 + Max2(sli_deduction, 0)]

\* lines 187-227: after Form1040Agent.process returned f
FinishReturn(P, tax_inputs, b, c, se, f) ==
    LET agents == [P.agents EXCEPT !.schedule_b.citations = b.citations,
                                   !.schedule_c.citations = c.citations,
                                   !.schedule_se.citations = se.citations,
                                   !.f1040.citations = f.citations]
        form_1040_outputs ==
            ApplyOtherTaxesAndWithholding(
                f.out,
                IF se.out.present THEN se.out.self_employment_tax ELSE 0,
                SumSeq(WithholdingOf(tax_inputs.w2)))
    IN  IF f.err # "none"
        THEN Outcome(f.err, Form1040Outputs, agents, P.results,
                     UnitsRun(b, c, se))
        ELSE Outcome("none", form_1040_outputs, agents,
                     [stored |-> TRUE, schedule_b |-> b.out,
                      schedule_c |-> c.out, schedule_se |-> se.out,
                      form_1040 |-> form_1040_outputs],
                     UnitsRun(b, c, se) \o <<"adjustments", "form_1040">>)

\* Step 4 on, with the schedules' results.  The reads of
\* tax_inputs.educator_expenses_paid (line 154) and
\* tax_inputs.student_loan_interest_paid (line 167) come after the
\* schedules ran.
AfterSchedules(P, tax_inputs, b, c, se, ts) ==
    IF "educator_expenses_paid" \notin TaxInputsFields
    THEN Outcome("AttributeError: TaxInputs has no attribute educator_expenses_paid",
                 Form1040Outputs,
                 [P.agents EXCEPT !.schedule_b.citations = b.citations,
                                  !.schedule_c.citations = c.citations,
                                  !.schedule_se.citations = se.citations],
                 P.results, UnitsRun(b, c, se))
    ELSE IF "student_loan_interest_paid" \notin TaxInputsFields
    THEN Outcome("AttributeError: TaxInputs has no attribute student_loan_interest_paid",
                 Form1040Outputs,
                 [P.agents EXCEPT !.schedule_b.citations = b.citations,
                                  !.schedule_c.citations = c.citations,
                                  !.schedule_se.citations = se.citations],
                 P.results, UnitsRun(b, c, se))
    ELSE FinishReturn(P, tax_inputs, b, c, se,
             Form1040AgentProcess(P.agents.f1040,
                 BuildForm1040Inputs(tax_inputs, b, c, se, ts.sli), ts.tax))

AfterScheduleC(P, tax_inputs, b, c, ts) ==
    AfterSchedules(P, tax_inputs, b, c,
                   RunScheduleSE(P, tax_inputs, c, ts), ts)

\* process_tax_return on the processor P.  ts = [tax, se, ded, sli]: the
\* ties of the round(.., 2) calls on the way.
ProcessTaxReturn(P, data, ts) ==
    LET parsed == ParseInputs(data)
    IN  IF parsed.err # "none"
        THEN Outcome(parsed.err, Form1040Outputs, P.agents, P.results, <<>>)
        ELSE AfterScheduleC(P, parsed.val, RunScheduleB(P, parsed.val),
                            RunScheduleC(P, parsed.val), ts)

\* faulty variant of VerifyResults: with nothing stored, a default record is
\* verified
VerifyResultsOfDefault(P, fuzz) ==
    verify_form_1040(IF P.results.stored THEN P.results.form_1040
                     ELSE Form1040Outputs, fuzz)

\* verify_results: False without running the verifier when no Form 1040
\* is stored
VerifyResults(P, fuzz) ==
    IF ~P.results.stored
    THEN [ran |-> FALSE, passed |-> FALSE, errors |-> <<>>, warnings |-> <<>>]
    ELSE verify_form_1040(P.results.form_1040, fuzz)

-----------------------------------------------------------------------------
(* Bounds and input sets.                                                  *)

\* calls made on one Form1040Agent
MaxRuns == 2

\* calls made on one TaxReturnProcessor
MaxCalls == 2

Ties == {0, 1}

NoArg == [none |-> TRUE]

NoAgent == FormAgent(FALSE)

\* taxable incomes around every bracket edge of a status: one cent below,
\* the edge, one cent above, and the offsets at which (income - edge) * rate
\* is exactly half a cent for one of the rates
EdgeOffsets == {-1, 0, 1, 5, 10, 25, 50}

TaxableIncomes(status) ==
    {-100, 0, 1, 3540000, 5000000, 100000000}
    \cup (IF status \in DOMAIN TAX_BRACKETS_2024
          THEN {TAX_BRACKETS_2024[status][i].min_income + d :
                   i \in 1..Len(TAX_BRACKETS_2024[status]), d \in EdgeOffsets}
          ELSE {})

CalculateTaxArgs ==
    {[taxable_income |-> x, filing_status |-> s] :
        x \in UNION {TaxableIncomes(NormalizeStatus(r)) : r \in RawStatusStrings},
        s \in RawStatusStrings}

Ages == {None, 0, 64, 65, 70}

StandardDeductionArgs ==
    [filing_status : RawStatusStrings, taxpayer_age : Ages,
     taxpayer_blind : BOOLEAN, spouse_age : Ages, spouse_blind : BOOLEAN]

Taxpayer(age, blind, spouse_age, spouse_blind) ==
    [age |-> age, blind |-> blind, spouse_age |-> spouse_age,
     spouse_blind |-> spouse_blind]

Child == [qualifying_child |-> TRUE]

OtherDependent == [qualifying_child |-> FALSE]

Form1040Inputs(status, taxpayer, dependents, wages, interest, dividends, additional, adjustments) ==
    [filing_status |-> status, taxpayer |-> taxpayer,
     dependents |-> dependents, wages |-> wages, interest |-> interest,
     dividends |-> dividends, schedule_1_additional_income |-> additional,
     schedule_1_adjustments |-> adjustments]

Form1040InputSet ==
    {Form1040Inputs(s, Taxpayer(35, FALSE, None, FALSE), <<>>, 5000000,
                    0, 0, 0, 0) : s \in FilingStatusValues}
    \cup
    \* no income, a high bracket, and a tax of exactly half a cent (5 cents
    \* of taxable income at 10%)
    {Form1040Inputs("single", Taxpayer(35, FALSE, None, FALSE), <<>>, w,
                    0, 0, 0, 0) : w \in {0, 30000005, 1460005}}
    \cup
    {Form1040Inputs("single", Taxpayer(None, FALSE, None, FALSE), <<>>,
                    5000000, i.interest, i.dividends, a, j) :
        i \in {[interest |-> 0, dividends |-> 0],
               [interest |-> 100000, dividends |-> 200000]},
        a \in {-40000000, 0, 6050000}, j \in {0, 250000}}
    \cup
    {Form1040Inputs("single", Taxpayer(None, FALSE, None, FALSE), <<>>,
                    5000000, 100000, 0, 0, 0)}
    \cup
    {Form1040Inputs("married_filing_jointly", Taxpayer(66, TRUE, 70, TRUE),
                    deps, w, 0, 0, 0, 0) :
        deps \in {<<Child>>, <<Child, OtherDependent, Child>>},
        w \in {3200000, 12000000}}
    \cup
    {Form1040Inputs("head_of_household", Taxpayer(66, TRUE, 70, TRUE),
                    <<Child, OtherDependent, Child>>, w, 0, 0, 0, 0) :
        w \in {3200000, 12000000}}

-----------------------------------------------------------------------------
(* The pure tools, called directly.                                        *)

InitTools ==
    /\ pc = "call"
    /\ \/ fn = "calculate_tax" /\ arg \in CalculateTaxArgs
       \/ fn = "get_standard_deduction" /\ arg \in StandardDeductionArgs
    /\ ret = NoRet
    /\ agent = NoAgent
    /\ runs = 0
    /\ processor = TaxReturnProcessor

CallCalculateTax ==
    /\ pc = "call" /\ fn = "calculate_tax"
    /\ \E tie \in Ties :
          ret' = calculate_tax(arg.taxable_income, arg.filing_status, tie)
    /\ pc' = "done"
    /\ UNCHANGED <<fn, arg, agent, runs, processor>>

CallGetStandardDeduction ==
    /\ pc = "call" /\ fn = "get_standard_deduction"
    /\ ret' = get_standard_deduction(arg.filing_status, arg.taxpayer_age,
                                     arg.taxpayer_blind, arg.spouse_age,
                                     arg.spouse_blind)
    /\ pc' = "done"
    /\ UNCHANGED <<fn, arg, agent, runs, processor>>

NextTools == CallCalculateTax \/ CallGetStandardDeduction

SpecTools == InitTools /\ [][NextTools]_vars

-----------------------------------------------------------------------------
(* One Form1040Agent, called directly, several times.                      *)

InitAgent ==
    /\ pc = "call"
    /\ fn = "Form1040Agent.process"
    /\ arg \in Form1040InputSet
    /\ ret = [err |-> "pending", out |-> Form1040Outputs]
    /\ agent \in {FormAgent(e) : e \in BOOLEAN}
    /\ runs = 0
    /\ processor = TaxReturnProcessor

AgentProcess ==
    /\ pc = "call"
    /\ \E tie \in Ties :
          LET r == Form1040AgentProcess(agent, arg, tie)
          IN  /\ ret' = [err |-> r.err, out |-> r.out]
              /\ agent' = [agent EXCEPT !.citations = r.citations]
    /\ runs' = runs + 1
    /\ pc' = "done"
    /\ UNCHANGED <<fn, arg, processor>>

AgentNextCall ==
    /\ pc = "done"
    /\ runs < MaxRuns
    /\ arg' \in Form1040InputSet
    /\ pc' = "call"
    /\ UNCHANGED <<fn, ret, agent, runs, processor>>

NextAgent == AgentProcess \/ AgentNextCall

SpecAgent == InitAgent /\ [][NextAgent]_vars

-----------------------------------------------------------------------------
(* One TaxReturnProcessor: process_tax_return and verify_results calls.    *)

W2(wages, federal_withholding) ==
    [wages |-> wages, federal_withholding |-> federal_withholding]

Form1099INT(interest_income) == [interest_income |-> interest_income]

Form1099DIV(ordinary_dividends) == [ordinary_dividends |-> ordinary_dividends]

\* the "business_income" object of input.json, with the keys the parser reads
BusinessData(gross_receipts, advertising, meals, other_expenses) ==
    [gross_receipts |-> gross_receipts, advertising |-> advertising,
     office_expense |-> 0, supplies |-> 0, utilities |-> 0, meals |-> meals,
     legal_professional |-> 0, other_expenses |-> other_expenses]

NoBusinessData == BusinessData(0, 0, 0, <<>>)

InputRecord(status, w2, ints, divs, deps, has_biz, biz, edu, sli) ==
    [filing_status |-> status, age |-> 35, w2 |-> w2,
     income_1099_int |-> ints, income_1099_div |-> divs,
     dependents |-> deps, has_business_income |-> has_biz,
     business_income |-> biz,
     educator_expenses_paid |-> edu.paid,
     spouse_educator_expenses_paid |-> edu.spouse_paid,
     is_taxpayer_educator |-> edu.eligible,
     is_spouse_educator |-> edu.spouse_eligible,
     student_loan_interest_paid |-> sli]

NoEducator ==
    [paid |-> 0, spouse_paid |-> 0, eligible |-> FALSE,
     spouse_eligible |-> FALSE]

BothEducators ==
    [paid |-> 40000, spouse_paid |-> 40000, eligible |-> TRUE,
     spouse_eligible |-> TRUE]

\* the key filing_status_map is looked up with names one of the five values
RecognizedStatus(data) ==
    \/ data.filing_status = Absent
    \/ Lower(data.filing_status) \in FilingStatusValues

\* some wage, withholding, interest or business amount of the record is
\* negative
HasNegativeAmount(data) ==
    \/ \E i \in 1..Len(data.w2) :
          data.w2[i].wages < 0 \/ data.w2[i].federal_withholding < 0
    \/ \E i \in 1..Len(data.income_1099_int) :
          data.income_1099_int[i].interest_income < 0
    \/ /\ data.has_business_income
       /\ \/ data.business_income.gross_receipts < 0
          \/ data.business_income.advertising < 0
          \/ data.business_income.meals < 0

\* the record with each of these amounts replaced by its absolute value
NonNegative(data) ==
    [data EXCEPT
        !.w2 = [i \in 1..Len(data.w2) |->
                   W2(Abs(data.w2[i].wages),
                      Abs(data.w2[i].federal_withholding))],
        !.income_1099_int =
            [i \in 1..Len(data.income_1099_int) |->
                Form1099INT(Abs(data.income_1099_int[i].interest_income))],
        !.business_income =
            [data.business_income EXCEPT
                !.gross_receipts = Abs(@), !.advertising = Abs(@),
                !.meals = Abs(@)]]

\* input.json records: a recognized status or a string that names none of
\* the five values, amounts that are non-negative or, in the last group,
\* one of them negative
InputRecords ==
    {InputRecord(s, w, i, <<>>, <<>>, FALSE, NoBusinessData, NoEducator, 0) :
        s \in {"single", "married_filing_jointly", "head_of_household",
               Absent},
        w \in {<<>>, <<W2(5000000, 500000)>>,
               <<W2(6000000, 1500000), W2(4500000, 900000)>>},
        i \in {<<>>, <<Form1099INT(100000), Form1099INT(25000)>>,
               <<Form1099INT(25000), Form1099INT(100000)>>}}
    \cup
    {InputRecord(s, <<W2(5000000, 500000)>>, <<>>, d, deps, b.has, b.biz,
                 NoEducator, 0) :
        s \in {"single", "married_filing_jointly"},
        d \in {<<>>, <<Form1099DIV(30000)>>},
        deps \in {<<>>, <<Child, OtherDependent>>},
        b \in {[has |-> TRUE, biz |-> BusinessData(8000000, 1900000, 100000, <<>>)],
               [has |-> TRUE, biz |-> BusinessData(100000, 40000000, 0, <<100000>>)],
               [has |-> TRUE, biz |-> BusinessData(30000, 0, 0, <<>>)]}}
    \cup
    {InputRecord(s, <<W2(8500000, 900000)>>, <<>>, <<>>, <<>>, FALSE,
                 NoBusinessData, e, l) :
        s \in {"single", "married_filing_jointly"},
        e \in {NoEducator, BothEducators},
        l \in {0, 300000}}
    \cup
    {InputRecord(s, w, <<>>, <<>>, <<>>, FALSE, NoBusinessData, NoEducator,
                 0) :
        s \in {"widowed", "Head Of Household"},
        w \in {<<>>, <<W2(5000000, 500000)>>}}
    \cup
    {InputRecord("single", w, i, <<>>, <<>>, b.has, b.biz, NoEducator, 0) :
        w \in {<<W2(-5000000, 500000)>>, <<W2(5000000, -500000)>>,
               <<W2(5000000, 500000)>>},
        i \in {<<>>, <<Form1099INT(-100000)>>},
        b \in {[has |-> FALSE, biz |-> NoBusinessData],
               [has |-> TRUE, biz |-> BusinessData(-8000000, 0, 0, <<>>)],
               [has |-> TRUE, biz |-> BusinessData(8000000, -1900000, 0, <<>>)]}}

TieChoices == [tax : Ties, se : Ties, ded : Ties, sli : Ties]

Init ==
    /\ pc = "idle"
    /\ fn = "TaxReturnProcessor"
    /\ arg = NoArg
    /\ ret = NoRet
    /\ agent = NoAgent
    /\ runs = 0
    /\ processor = TaxReturnProcessor

\* a call of process_tax_return: ret is what the caller gets, the exception
\* or the returned Form 1040 outputs, with the units the call ran
CallProcessTaxReturn ==
    /\ runs < MaxCalls
    /\ \E data \in InputRecords, ts \in TieChoices :
          LET r == ProcessTaxReturn(processor, data, ts)
          IN  /\ arg' = data
              /\ ret' = [err |-> r.err, out |-> r.out, units |-> r.units]
              /\ processor' = [results |-> r.results, agents |-> r.agents]
    /\ fn' = "process_tax_return"
    /\ pc' = "returned"
    /\ runs' = runs + 1
    /\ UNCHANGED agent

\* a call of verify_results
CallVerifyResults ==
    /\ \E fuzz \in Fuzzes :
          ret' = VerifyResults(processor, fuzz)
    /\ fn' = "verify_results"
    /\ pc' = "verified"
    /\ UNCHANGED <<arg, agent, runs, processor>>

Next == CallProcessTaxReturn \/ CallVerifyResults

Spec == Init /\ [][Next]_vars

-----------------------------------------------------------------------------
(* The schedule agents and the adjustment functions, called directly.      *)

\* net profits around the $400 threshold and the wage base, and amounts
\* whose tax is exactly half a cent (50,000.00) or a whole cent (200,000.00)
SEProfits ==
    {-100000, 0, 39999, 40000} \cup (40001..40012)
    \cup {100000, 5000000, 18256632, 18256633, 20000000}

ScheduleSEInputSet ==
    {[net_profit_loss |-> p, filing_status |-> "single"] : p \in SEProfits}

\* business profiles: income lines, named expenses, meals, other expenses
BusinessProfiles ==
    {[BusinessIncomeDefaults EXCEPT
         !.gross_receipts = i.receipts, !.returns_allowances = i.returns,
         !.cost_of_goods_sold = i.cogs, !.other_income = i.other,
         !.advertising = e.advertising, !.wages = e.wages,
         !.travel = e.travel, !.meals = m, !.other_expenses = x] :
        i \in {[receipts |-> 8000000, returns |-> 0, cogs |-> 0, other |-> 0],
               [receipts |-> 5000000, returns |-> 200000, cogs |-> 1500000,
                other |-> 30000],
               [receipts |-> 0, returns |-> 0, cogs |-> 0, other |-> 0]},
        e \in {[advertising |-> 0, wages |-> 0, travel |-> 0],
               [advertising |-> 1900000, wages |-> 0, travel |-> 0],
               [advertising |-> 100000, wages |-> 9000000, travel |-> 40000]},
        m \in {0, 100000},
        x \in {<<>>, <<25000, 7500>>}}

ScheduleCInputSet ==
    {[business |-> b, filing_status |-> "single"] : b \in BusinessProfiles}

\* filing_status: Union[FilingStatus, str], a member or a plain string
StatusArgs ==
    {Member(v) : v \in FilingStatusValues} \cup {Str(v) : v \in FilingStatusValues}

\* losses (positive) around the two thresholds, and non-losses
ExcessBusinessLossArgs ==
    [net_business_loss : {-100000, 0, 1, 30500000, 30500001, 40000000,
                          61000000, 61000001, 70000000},
     filing_status : StatusArgs]

\* MAGI around the breakpoints of both windows and inside them
StudentLoanInterestArgs ==
    [interest_paid : {0, 100000, 250000, 300000},
     magi : {-100000, 5000000, 8000000, 8000001, 8750000, 9006000, 9499999,
             9500000, 12000000, 16500000, 16500001, 18000000, 19499999,
             19500000, 20000000},
     filing_status : StatusArgs]

EducatorExpenseArgs ==
    [amount_paid : {0, 25000, 30000, 40000}, is_eligible : BOOLEAN,
     spouse_amount_paid : {0, 40000}, spouse_eligible : BOOLEAN,
     filing_status : StatusArgs]

InitUnits ==
    /\ pc = "call"
    /\ \/ fn = "ScheduleSEAgent.process" /\ arg \in ScheduleSEInputSet
       \/ fn = "ScheduleCAgent.process" /\ arg \in ScheduleCInputSet
       \/ fn = "calculate_excess_business_loss"
              /\ arg \in ExcessBusinessLossArgs
       \/ fn = "calculate_student_loan_interest"
              /\ arg \in StudentLoanInterestArgs
       \/ fn = "calculate_educator_expense" /\ arg \in EducatorExpenseArgs
    /\ ret = NoRet
    /\ agent \in {FormAgent(e) : e \in BOOLEAN}
    /\ runs = 0
    /\ processor = TaxReturnProcessor

CallScheduleSE ==
    /\ pc = "call" /\ fn = "ScheduleSEAgent.process"
    /\ \E ts \in [tax : Ties, ded : Ties] :
          LET r == ScheduleSEAgentProcess(agent, arg, ts)
          IN  /\ ret' = [err |-> "none", out |-> r.out]
              /\ agent' = [agent EXCEPT !.citations = r.citations]
    /\ pc' = "done"
    /\ runs' = runs + 1
    /\ UNCHANGED <<fn, arg, processor>>

CallScheduleC ==
    /\ pc = "call" /\ fn = "ScheduleCAgent.process"
    /\ LET r == ScheduleCAgentProcess(agent, arg)
       IN  /\ ret' = [err |-> "none", out |-> r.out]
           /\ agent' = [agent EXCEPT !.citations = r.citations]
    /\ pc' = "done"
    /\ runs' = runs + 1
    /\ UNCHANGED <<fn, arg, processor>>

CallExcessBusinessLoss ==
    /\ pc = "call" /\ fn = "calculate_excess_business_loss"
    /\ ret' = Ret(calculate_excess_business_loss(arg.net_business_loss,
                                                 arg.filing_status))
    /\ pc' = "done"
    /\ UNCHANGED <<fn, arg, agent, runs, processor>>

CallStudentLoanInterest ==
    /\ pc = "call" /\ fn = "calculate_student_loan_interest"
    /\ \E tie \in Ties :
          ret' = Ret(calculate_student_loan_interest(
                         arg.interest_paid, arg.magi, arg.filing_status, tie))
    /\ pc' = "done"
    /\ UNCHANGED <<fn, arg, agent, runs, processor>>

CallEducatorExpense ==
    /\ pc = "call" /\ fn = "calculate_educator_expense"
    /\ ret' = Ret(calculate_educator_expense(
                      arg.amount_paid, arg.is_eligible,
                      arg.spouse_amount_paid, arg.spouse_eligible,
                      arg.filing_status))
    /\ pc' = "done"
    /\ UNCHANGED <<fn, arg, agent, runs, processor>>

NextUnits ==
    \/ CallScheduleSE
    \/ CallScheduleC
    \/ CallExcessBusinessLoss
    \/ CallStudentLoanInterest
    \/ CallEducatorExpense

SpecUnits == InitUnits /\ [][NextUnits]_vars

-----------------------------------------------------------------------------
(* ArithmeticVerifier.verify_form_1040, called directly on output records. *)

\* calls of verify_form_1040 on one output record
MaxVerifications == 2

\* ArithmeticVerifier.__init__; id tells one instance from another
ArithmeticVerifier(id) == [name |-> "Arithmetic Verifier", id |-> id]

\* Form1040Outputs(...) records that satisfy every line formula: a refund,
\* an amount owed with a credit and self-employment tax, a business loss
\* with negative AGI, an AGI above 1,000,000
ConsistentOutputs ==
    {[Form1040Outputs EXCEPT
         !.line_1z = 5000000, !.line_9 = 5000000, !.line_11 = 5000000,
         !.line_12 = 1460000, !.line_15 = 3540000, !.line_16 = 402700,
         !.line_24 = 402700, !.line_25a = 500000, !.line_33 = 500000,
         !.line_34 = 97300],
     [Form1040Outputs EXCEPT
         !.line_1z = 3000000, !.line_2b = 125000, !.line_3b = 30000,
         !.line_8 = 6050000, !.line_9 = 9205000, !.line_10 = 427419,
         !.line_11 = 8777581, !.line_12 = 1460000, !.line_15 = 7317581,
         !.line_16 = 1115200, !.line_19 = 200000, !.line_23 = 854838,
         !.line_24 = 1770038, !.line_25a = 300000, !.line_33 = 300000,
         !.line_37 = 1470038],
     [Form1040Outputs EXCEPT
         !.line_1z = 1000000, !.line_8 = -3000000, !.line_9 = -2000000,
         !.line_11 = -2000000, !.line_12 = 1460000, !.line_25a = 100000,
         !.line_33 = 100000, !.line_34 = 100000],
     [Form1040Outputs EXCEPT
         !.line_1z = 150000000, !.line_9 = 150000000, !.line_11 = 150000000,
         !.line_12 = 1460000, !.line_15 = 148540000, !.line_16 = 50757325,
         !.line_24 = 50757325, !.line_25a = 50000000, !.line_33 = 50000000,
         !.line_37 = 757325]}

OutputLines ==
    {"line_9", "line_10", "line_11", "line_12", "line_15", "line_16",
     "line_19", "line_23", "line_24", "line_33", "line_34", "line_37"}

\* differences of one cent, two cents, half a dollar, two dollars, and more
LineErrors == {-4000000, -200, -2, -1, 1, 2, 50, 200}

\* a consistent record, or one with one line off
OutputRecords ==
    ConsistentOutputs
    \cup {[o EXCEPT ![l] = o[l] + d] :
             o \in ConsistentOutputs, l \in OutputLines, d \in LineErrors}
    \cup {[o EXCEPT !.line_16 = 0, !.line_24 = o.line_23 - o.line_19,
                    !.line_34 = Max2(0, o.line_33 - o.line_23 + o.line_19),
                    !.line_37 = Max2(0, o.line_23 - o.line_19 - o.line_33)] :
             o \in ConsistentOutputs}

\* fuzz goes with the record: it stands for how the record's floats compare
InitVerifier ==
    /\ pc = "call"
    /\ fn = "verify_form_1040"
    /\ arg \in [outputs : OutputRecords, fuzz : Fuzzes]
    /\ ret = NoRet
    /\ agent = ArithmeticVerifier(1)
    /\ runs = 0
    /\ processor = TaxReturnProcessor

\* verifier.verify_form_1040(outputs)
CallVerifyForm1040 ==
    /\ runs < MaxVerifications
    /\ ret' = verify_form_1040(arg.outputs, arg.fuzz)
    /\ arg' = [arg EXCEPT !.outputs = OutputsAfterVerify(arg.outputs)]
    /\ pc' = "done"
    /\ runs' = runs + 1
    /\ UNCHANGED <<fn, agent, processor>>

\* verifier = ArithmeticVerifier(): the next call is made on a new instance
NewVerifier ==
    /\ agent.id <= runs
    /\ agent' = ArithmeticVerifier(agent.id + 1)
    /\ UNCHANGED <<pc, fn, arg, ret, runs, processor>>

NextVerifier == CallVerifyForm1040 \/ NewVerifier

SpecVerifier == InitVerifier /\ [][NextVerifier]_vars

-----------------------------------------------------------------------------
(* Properties of process_tax_return and verify_results, under Spec.        *)

\* C1: every call of process_tax_return returns a Form 1040 output, and the
\* returned output has line_34 * line_37 = 0 and
\* line_34 - line_37 = line_33 - line_24, both zero only when
\* line_33 = line_24.
C1_RefundOrOwedOfReturnedOutput ==
    pc = "returned" =>
        /\ ret.err = "none"
        /\ ret.out.line_34 = 0 \/ ret.out.line_37 = 0
        /\ ret.out.line_34 - ret.out.line_37
               = ret.out.line_33 - ret.out.line_24
        /\ (ret.out.line_34 = 0 /\ ret.out.line_37 = 0)
               <=> ret.out.line_33 = ret.out.line_24

\* C2: once process_tax_return was called, verify_results runs the verifier
\* on the returned output and it reports passed with no errors.
C2_VerifierAgreesWithForward ==
    (pc = "verified" /\ runs > 0) =>
        ret.ran /\ ret.passed /\ ret.errors = <<>>

\* C3: a call of process_tax_return runs Schedule B iff the input has an
\* interest or dividend record, Schedule C iff it has a business profile,
\* Schedule SE iff Schedule C ran with a strictly positive net result, then
\* the adjustments and Form 1040, in this order.
C3_UnitsInOrderUnderTriggers ==
    pc = "returned" =>
        LET hasB == arg.income_1099_int # <<>> \/ arg.income_1099_div # <<>>
            hasC == arg.has_business_income
            net == ScheduleCAgentProcess(
                       FormAgent(TRUE),
                       [business |-> ParseBusinessIncome(arg.business_income),
                        filing_status |-> ParseFilingStatus(arg)])
                   .out.net_profit_loss
        IN  ret.units =
                (IF hasB THEN <<"schedule_b">> ELSE <<>>)
                \o (IF hasC THEN <<"schedule_c">> ELSE <<>>)
                \o (IF hasC /\ net > 0 THEN <<"schedule_se">> ELSE <<>>)
                \o <<"adjustments", "form_1040">>

\* C5: for an input record with a recognized filing status and non-negative
\* amounts, process_tax_return raises nothing and returns its output.
C5_ProcessReturnsWithoutError ==
    (pc = "returned" /\ RecognizedStatus(arg) /\ ~HasNegativeAmount(arg))
        => ret.err = "none"

-----------------------------------------------------------------------------
(* Properties of Form1040Agent.process, under SpecAgent.                   *)

\* C4: process raises nothing and its output has
\* line_9 = wages + interest + dividends + additional income,
\* line_11 = line_9 - line_10, line_12 = the standard deduction,
\* line_15 = max(0, line_11 - line_12), line_16 = calculate_tax(line_15),
\* line_19 = min(2000 * qualifying children, line_16) and
\* line_24 = line_16 - line_19 + line_23.
C4_LineFormulas ==
    pc = "done" =>
        LET o == ret.out
            sd == get_standard_deduction(
                      arg.filing_status, arg.taxpayer.age, arg.taxpayer.blind,
                      arg.taxpayer.spouse_age, arg.taxpayer.spouse_blind)
            kids == Cardinality({i \in DOMAIN arg.dependents :
                                    arg.dependents[i].qualifying_child})
        IN  /\ ret.err = "none"
            /\ o.line_9 = arg.wages + arg.interest + arg.dividends
                          + arg.schedule_1_additional_income
            /\ o.line_10 = arg.schedule_1_adjustments
            /\ o.line_11 = o.line_9 - o.line_10
            /\ Ret(o.line_12) = sd
            /\ o.line_15 = (IF o.line_11 - o.line_12 > 0
                            THEN o.line_11 - o.line_12 ELSE 0)
            /\ \E tie \in Ties :
                  Ret(o.line_16)
                      = calculate_tax(o.line_15, arg.filing_status, tie)
            /\ o.line_19 = (IF 200000 * kids < o.line_16
                            THEN 200000 * kids ELSE o.line_16)
            /\ o.line_24 = o.line_16 - o.line_19 + o.line_23

\* married filing jointly, $120,000 of wages, both spouses over 65 and
\* blind, two qualifying children: tax 9,688, credit 4,000, total 5,688
C4_Witness ==
    /\ pc = "done"
    /\ arg.filing_status = "married_filing_jointly"
    /\ arg.dependents = <<Child, OtherDependent, Child>>
    /\ ret.out.line_12 = 3540000
    /\ ret.out.line_15 = 8460000
    /\ ret.out.line_16 = 968800
    /\ ret.out.line_19 = 400000
    /\ ret.out.line_24 = 568800

\* C6: the output of every call on a reused agent, line values and citation
\* mapping, is the output a freshly constructed agent gives for the same
\* input.
C6_OutputAsOfFreshAgent ==
    (pc = "done" /\ ret.err = "none") =>
        \E tie \in Ties :
            ret.out = Form1040AgentProcess(FormAgent(agent.enable_citations),
                                           arg, tie).out

-----------------------------------------------------------------------------
(* Properties of calculate_tax and get_standard_deduction, under SpecTools. *)

\* the taxable income of the call is the lower edge of bracket i
AtEdge(brackets, i) == arg.taxable_income = brackets[i].min_income

\* C7: for adjacent brackets the upper base_tax is the lower base_tax plus
\* (edge - lower min_income) * lower rate, and a taxable income equal to an
\* edge lies in the upper bracket only and is taxed its base_tax; one cent
\* below the edge the tax is within a cent of it.
C7_ContinuousAtBracketEdges ==
    /\ \A s \in DOMAIN TAX_BRACKETS_2024 :
          \A i \in 1..(Len(TAX_BRACKETS_2024[s]) - 1) :
              LET lower == TAX_BRACKETS_2024[s][i]
                  upper == TAX_BRACKETS_2024[s][i + 1]
              IN  upper.base_tax * 100
                      = lower.base_tax * 100
                        + (lower.max_income - lower.min_income) * lower.rate
    /\ (pc = "done" /\ fn = "calculate_tax"
            /\ NormalizeStatus(arg.filing_status) \in DOMAIN TAX_BRACKETS_2024)
       => LET brackets == TAX_BRACKETS_2024[NormalizeStatus(arg.filing_status)]
          IN  \A i \in 2..Len(brackets) :
                  /\ AtEdge(brackets, i) =>
                        /\ MatchingBrackets(brackets, arg.taxable_income) = {i}
                        /\ ret = Ret(brackets[i].base_tax)
                  /\ arg.taxable_income = brackets[i].min_income - 1 =>
                        /\ ret.err = "none"
                        /\ brackets[i].base_tax - ret.val \in {0, 1}

\* calculate_tax(47150, "single") = 5426: the edge of the 12% and the 22%
\* bracket
C7_Witness ==
    /\ pc = "done" /\ fn = "calculate_tax"
    /\ arg.filing_status = "single"
    /\ arg.taxable_income = 4715000
    /\ ret = Ret(542600)

\* C8: calculate_tax returns 0 for a taxable income <= 0, and for a fixed
\* filing status a smaller taxable income never has a larger tax, whatever
\* way the half cents round.
C8_NonDecreasing ==
    (pc = "done" /\ fn = "calculate_tax") =>
        /\ arg.taxable_income <= 0 => ret = Ret(0)
        /\ NormalizeStatus(arg.filing_status) \in FilingStatusValues =>
              /\ ret.err = "none"
              /\ \A x \in TaxableIncomes(NormalizeStatus(arg.filing_status)),
                    tie \in Ties :
                    LET r == calculate_tax(x, arg.filing_status, tie)
                    IN  /\ r.err = "none"
                        /\ x < arg.taxable_income => r.val <= ret.val
                        /\ x > arg.taxable_income => r.val >= ret.val

\* 25 cents into the 22% bracket the tax is 5,426.055, here rounded up
C8_Witness ==
    /\ pc = "done" /\ fn = "calculate_tax"
    /\ arg.filing_status = "single"
    /\ arg.taxable_income = 4715025
    /\ ret = Ret(542606)

\* C9: the bracket table and both deduction tables have an entry for each
\* of the five filing statuses; every bracket table starts at 0, each lower
\* bound is the upper bound of the entry before, and only the last upper
\* bound is unbounded; a positive taxable income matches exactly one
\* bracket and calculate_tax never raises "No tax bracket found".
C9_TablesCompleteAndGapless ==
    /\ DOMAIN TAX_BRACKETS_2024 = FilingStatusValues
    /\ DOMAIN STANDARD_DEDUCTION_2024 = FilingStatusValues
    /\ DOMAIN ADDITIONAL_DEDUCTION_2024 = FilingStatusValues
    /\ \A s \in DOMAIN TAX_BRACKETS_2024 :
          LET brackets == TAX_BRACKETS_2024[s]
              n == Len(brackets)
          IN  /\ n >= 1
              /\ brackets[1].min_income = 0
              /\ brackets[n].max_income = Inf
              /\ \A i \in 1..(n - 1) :
                    /\ brackets[i].max_income # Inf
                    /\ brackets[i].min_income < brackets[i].max_income
                    /\ brackets[i + 1].min_income = brackets[i].max_income
    /\ (pc = "done" /\ fn = "calculate_tax") =>
          /\ ret.err # "ValueError: No tax bracket found"
          /\ (arg.taxable_income > 0
                /\ NormalizeStatus(arg.filing_status) \in FilingStatusValues)
             => Cardinality(MatchingBrackets(
                    TAX_BRACKETS_2024[NormalizeStatus(arg.filing_status)],
                    arg.taxable_income)) = 1

\* calculate_tax(1000000, "Head Of Household"): the last, unbounded bracket
C9_Witness ==
    /\ pc = "done" /\ fn = "calculate_tax"
    /\ arg.filing_status = "Head Of Household"
    /\ arg.taxable_income = 100000000
    /\ ret = Ret(32649500)

\* 1 for a condition that holds, 0 otherwise
Count(condition) == IF condition THEN 1 ELSE 0

\* C10: get_standard_deduction returns the base amount of the status plus
\* one increment per condition of {taxpayer 65 or older, taxpayer blind}
\* and, for married_filing_jointly and qualifying_widow only, of {spouse 65
\* or older, spouse blind}; for the other statuses no spouse age or
\* blindness changes the result; adding conditions never lowers it.
C10_StandardDeduction ==
    (pc = "done" /\ fn = "get_standard_deduction"
        /\ NormalizeStatus(arg.filing_status) \in FilingStatusValues) =>
        LET status == NormalizeStatus(arg.filing_status)
            joint == status \in {"married_filing_jointly", "qualifying_widow"}
            own == Count(arg.taxpayer_age >= 65) + Count(arg.taxpayer_blind)
            spouse == Count(arg.spouse_age >= 65) + Count(arg.spouse_blind)
        IN  /\ ret = Ret(STANDARD_DEDUCTION_2024[status]
                         + ADDITIONAL_DEDUCTION_2024[status]
                           * (own + (IF joint THEN spouse ELSE 0)))
            /\ ~joint =>
                  \A a \in Ages, b \in BOOLEAN :
                      get_standard_deduction(
                          arg.filing_status, arg.taxpayer_age,
                          arg.taxpayer_blind, a, b) = ret
            /\ \A more \in StandardDeductionArgs :
                  (/\ more.filing_status = arg.filing_status
                   /\ arg.taxpayer_age >= 65 => more.taxpayer_age >= 65
                   /\ arg.taxpayer_blind => more.taxpayer_blind
                   /\ arg.spouse_age >= 65 => more.spouse_age >= 65
                   /\ arg.spouse_blind => more.spouse_blind)
                  => get_standard_deduction(
                         more.filing_status, more.taxpayer_age,
                         more.taxpayer_blind, more.spouse_age,
                         more.spouse_blind).val >= ret.val

\* single, 70 years old, with a blind spouse of 70 supplied: 14,600 + 1,950
C10_Witness ==
    /\ pc = "done" /\ fn = "get_standard_deduction"
    /\ arg.filing_status = "single"
    /\ arg.taxpayer_age = 70 /\ ~arg.taxpayer_blind
    /\ arg.spouse_age = 70 /\ arg.spouse_blind
    /\ ret = Ret(1655000)

-----------------------------------------------------------------------------
(* Properties of the schedule agents and the adjustment functions, under   *)
(* SpecUnits.                                                              *)

C12_SETaxAndHalfOfItDeducted ==
    (pc = "done" /\ fn = "ScheduleSEAgent.process"
        /\ arg.net_profit_loss > 40000) =>
        /\ \E tie \in Ties :
              ret.out.self_employment_tax
                  = IF arg.net_profit_loss > WageBaseProfit
                    THEN WageBaseTax
                         + MulDivRound(arg.net_profit_loss, 267815, 10000000,
                                       tie)
                    ELSE MulDivRound(arg.net_profit_loss, 1412955, 10000000,
                                     tie)
        /\ \E tie \in Ties :
              ret.out.deduction
                  = RoundHalf(ret.out.self_employment_tax, 2, tie)
        /\ \A p \in SEProfits, ts \in [tax : Ties, ded : Ties] :
              LET other == ScheduleSEAgentProcess(
                               FormAgent(FALSE),
                               [net_profit_loss |-> p,
                                filing_status |-> arg.filing_status], ts).out
              IN  (p > 40000 /\ other.self_employment_tax
                                   = ret.out.self_employment_tax)
                  => other.deduction = ret.out.deduction

\* the named expense categories of a business profile other than meals
NamedExpenses(business) ==
    business.advertising + business.car_truck_expenses
    + business.commissions_fees + business.contract_labor
    + business.depreciation + business.insurance + business.interest
    + business.legal_professional + business.office_expense
    + business.rent_lease + business.repairs_maintenance + business.supplies
    + business.taxes_licenses + business.travel + business.utilities
    + business.wages

\* C13: ScheduleCAgent.process returns gross income = receipts - returns
\* - COGS + other income, total expenses = named expenses other than meals
\* + half of meals + the other expenses, and net profit or loss = gross
\* income - total expenses.
C13_ScheduleCFormulas ==
    (pc = "done" /\ fn = "ScheduleCAgent.process") =>
        LET b == arg.business
            o == ret.out
        IN  /\ o.gross_income = b.gross_receipts - b.returns_allowances
                                - b.cost_of_goods_sold + b.other_income
            /\ 2 * o.total_expenses
                   = 2 * NamedExpenses(b) + b.meals
                     + 2 * SumSeq(b.other_expenses)
            /\ o.net_profit_loss = o.gross_income - o.total_expenses

\* receipts 80,000, expenses 20,000 of which 1,000 meals: total expenses
\* 19,500 and net profit 60,500
C13_Witness ==
    /\ pc = "done" /\ fn = "ScheduleCAgent.process"
    /\ arg.business.gross_receipts = 8000000
    /\ arg.business.advertising = 1900000
    /\ arg.business.meals = 100000
    /\ ret.out.total_expenses = 1950000
    /\ ret.out.net_profit_loss = 6050000

\* C14: calculate_excess_business_loss adds back 0 for a zero or positive
\* business result and, for a loss of magnitude m, max(0, m - threshold) with
\* threshold 305,000 for the non-joint statuses and 610,000 for
\* married_filing_jointly, however the status is passed (the orchestrator
\* passes a FilingStatus member); the loss kept never exceeds the threshold.
C14_ExcessBusinessLossAddBack ==
    pc = "done" /\ fn = "calculate_excess_business_loss" =>
        LET m == arg.net_business_loss
            threshold ==
                IF arg.filing_status.value = "married_filing_jointly"
                THEN 61000000 ELSE 30500000
        IN  /\ ret.val = (IF m <= 0 THEN 0 ELSE Max2(0, m - threshold))
            /\ m > 0 => m - ret.val <= threshold

\* C15: calculate_student_loan_interest is min(paid, 2,500) at or below the
\* start of the window, 0 at or above its end, and in between
\* base * (end - MAGI) / (end - start) rounded to the cent; it never rises
\* with MAGI and has no jump at either breakpoint; the window is
\* [80,000, 95,000] for the non-joint statuses and [165,000, 195,000] for
\* married_filing_jointly.
C15_StudentLoanInterestPhaseOut ==
    pc = "done" /\ fn = "calculate_student_loan_interest" =>
        LET base == Min2(arg.interest_paid, 250000)
            joint == arg.filing_status.value = "married_filing_jointly"
            start_phase == IF joint THEN 16500000 ELSE 8000000
            end_phase == IF joint THEN 19500000 ELSE 9500000
        IN  /\ arg.magi <= start_phase => ret.val = base
            /\ arg.magi >= end_phase => ret.val = 0
            /\ arg.magi > start_phase /\ arg.magi < end_phase =>
                   \E tie \in Ties :
                       ret.val = MulDivRound(base, end_phase - arg.magi,
                                             end_phase - start_phase, tie)
            /\ arg.magi = start_phase + 1 => base - ret.val \in {0, 1}
            /\ arg.magi = end_phase - 1 => ret.val \in {0, 1}
            /\ \A a \in StudentLoanInterestArgs, tie \in Ties :
                   /\ a.interest_paid = arg.interest_paid
                   /\ a.filing_status = arg.filing_status
                   /\ a.magi > arg.magi
                   => calculate_student_loan_interest(
                          a.interest_paid, a.magi, a.filing_status, tie)
                      <= ret.val

\* C16: calculate_educator_expense is min(paid, 300) for an eligible
\* taxpayer (0 otherwise) plus min(spouse paid, 300) exactly when the status
\* is married_filing_jointly and the spouse is eligible, however the status
\* is passed (the orchestrator passes a FilingStatus member).
C16_EducatorExpense ==
    pc = "done" /\ fn = "calculate_educator_expense" =>
        LET own == IF arg.is_eligible THEN Min2(arg.amount_paid, 30000) ELSE 0
            spouse ==
                IF /\ arg.filing_status.value = "married_filing_jointly"
                   /\ arg.spouse_eligible
                THEN Min2(arg.spouse_amount_paid, 30000) ELSE 0
        IN  ret.val = own + spouse

-----------------------------------------------------------------------------
(* Properties of the adjustments, the late revision and the parsing of     *)
(* process_tax_return, under Spec.                                         *)

\* the self-employment results of the last call, 0 when Schedule SE did not run
StoredSE(P) ==
    IF P.results.schedule_se.present
    THEN [tax |-> P.results.schedule_se.self_employment_tax,
          deduction |-> P.results.schedule_se.deduction]
    ELSE [tax |-> 0, deduction |-> 0]

\* C17: every call returns a Form 1040 output; the MAGI passed to the
\* student-loan-interest formula is wages + interest + dividends + additional
\* income (line_9) minus the self-employment deduction and the educator
\* deduction, without the student-loan deduction, and the returned AGI
\* (line_11) is that figure minus the student-loan deduction obtained for it.
C17_ProvisionalAGIExcludesStudentLoan ==
    pc = "returned" =>
        /\ ret.err = "none"
        /\ LET status == Member(ParseFilingStatus(arg))
               educator_deduction ==
                   calculate_educator_expense(
                       arg.educator_expenses_paid, arg.is_taxpayer_educator,
                       arg.spouse_educator_expenses_paid,
                       arg.is_spouse_educator, status)
               magi == ret.out.line_9 - StoredSE(processor).deduction
                       - educator_deduction
           IN  \E tie \in Ties :
                   ret.out.line_11 =
                       magi - calculate_student_loan_interest(
                                  arg.student_loan_interest_paid, magi,
                                  status, tie)

\* C18: every call returns a Form 1040 output; when the self-employment tax
\* of the call is non-zero the output has line_23 = that tax,
\* line_24 = line_16 - line_19 + line_23 and line_34, line_37 recomputed from
\* line_33 and the revised line_24, while line_9, line_10, line_11, line_12,
\* line_15, line_16 and line_19 are as Form1040Agent.process computes them.
C18_LateRevisionOfOtherTaxes ==
    pc = "returned" =>
        /\ ret.err = "none"
        /\ StoredSE(processor).tax # 0 =>
               LET o == ret.out
                   status == ParseFilingStatus(arg)
                   kids == NumQualifyingChildren(arg.dependents)
               IN  /\ o.line_23 = StoredSE(processor).tax
                   /\ o.line_24 = o.line_16 - o.line_19 + o.line_23
                   /\ o.line_34 = Max2(o.line_33 - o.line_24, 0)
                   /\ o.line_37 = Max2(o.line_24 - o.line_33, 0)
                   /\ o.line_9 = o.line_1z + o.line_2b + o.line_3b + o.line_8
                   /\ o.line_11 = o.line_9 - o.line_10
                   /\ Ret(o.line_12) = get_standard_deduction(
                                           status, arg.age, FALSE, None, FALSE)
                   /\ o.line_15 = Max2(o.line_11 - o.line_12, 0)
                   /\ \E tie \in Ties :
                          Ret(o.line_16) = calculate_tax(o.line_15, status, tie)
                   /\ o.line_19 = Min2(200000 * kids, o.line_16)

\* C19: every call returns a Form 1040 output whose interest line (line_2b)
\* is the sum of the input's interest amounts and whose dividend line
\* (line_3b) is the sum of the input's ordinary dividends, 0 when there are
\* no such records; a sum does not depend on the order of the records.
C19_InterestAndDividendLines ==
    pc = "returned" =>
        /\ ret.err = "none"
        /\ ret.out.line_2b = SumSeq(InterestAmounts(arg.income_1099_int))
        /\ ret.out.line_3b = SumSeq(DividendAmounts(arg.income_1099_div))

\* C20: a call whose filing status string names none of the five values
\* ends with an error and no return, and the parsing puts no other status in
\* its place.
C20_UnrecognizedStatusRejected ==
    (pc = "returned" /\ ~RecognizedStatus(arg)) =>
        /\ ret.err # "none"
        /\ ~processor.results.stored
        /\ ParseFilingStatus(arg) \notin FilingStatusValues

-----------------------------------------------------------------------------
(* Properties of ArithmeticVerifier.verify_form_1040, under SpecVerifier.  *)

\* some error of the list names the line
Named(errors, line) == \E i \in 1..Len(errors) : errors[i].line = line

\* the result reports a failure with an error naming the line
Flagged(result, line) == ~result.passed /\ Named(result.errors, line)

\* C23 (as amended): when total income (line_9), AGI (line_11), taxable
\* income (line_15), total tax (line_24), the refund (line_34) or the amount
\* owed (line_37) differs by more than 0.01 from the value recomputed from
\* the other lines, verify_form_1040 returns passed = false with an error
\* naming that line.
C23_CheckedLinesFlagged ==
    (pc = "done" /\ fn = "verify_form_1040") =>
        LET o == arg.outputs
        IN  /\ Abs(o.line_9 - (o.line_1z + o.line_2b + o.line_3b + o.line_8))
                   > 1 => Flagged(ret, "Line 9")
            /\ Abs(o.line_11 - (o.line_9 - o.line_10)) > 1
                   => Flagged(ret, "Line 11")
            /\ Abs(o.line_15 - Max2(0, o.line_11 - o.line_12)) > 1
                   => Flagged(ret, "Line 15")
            /\ Abs(o.line_24 - (o.line_16 - o.line_19 + o.line_23)) > 1
                   => Flagged(ret, "Line 24")
            /\ Abs(o.line_34 - Max2(0, o.line_33 - o.line_24)) > 1
                   => Flagged(ret, "Line 34")
            /\ Abs(o.line_37 - Max2(0, o.line_24 - o.line_33)) > 1
                   => Flagged(ret, "Line 37")

\* total tax two cents above tax - credit + other taxes: reported on Line 24
C23_Witness ==
    /\ pc = "done" /\ fn = "verify_form_1040"
    /\ arg.outputs.line_16 = 402700
    /\ arg.outputs.line_24 = 402702
    /\ Flagged(ret, "Line 24")

\* C23 (as stated): every derived line is recomputed; besides the lines
\* above, a tax (line_16) that is the table's tax on line_15 for no filing
\* status, a child credit (line_19) above the tax, or total payments
\* (line_33) other than the withholding are reported with an error naming
\* that line.
C23_EveryDerivedLineFlagged ==
    (pc = "done" /\ fn = "verify_form_1040") =>
        LET o == arg.outputs
        IN  /\ C23_CheckedLinesFlagged
            /\ (/\ o.line_15 >= 0
                 /\ \A s \in FilingStatusValues, tie \in Ties :
                        Abs(calculate_tax(o.line_15, s, tie).val - o.line_16)
                            > 1)
                   => Flagged(ret, "Line 16")
            /\ o.line_19 > o.line_16 + 1 => Flagged(ret, "Line 19")
            /\ Abs(o.line_33 - o.line_25a) > 1 => Flagged(ret, "Line 33")

\* C24: passed is true exactly when the error list is empty; the warnings
\* (AGI above 1,000,000; zero tax with positive taxable income) are recorded
\* and leave passed to the errors alone; a negative taxable income gives a
\* "logic" error of severity critical on Line 15.
C24_PassedIffNoErrors ==
    (pc = "done" /\ fn = "verify_form_1040") =>
        LET o == arg.outputs
        IN  /\ ret.passed <=> ret.errors = <<>>
            /\ o.line_11 > 100000000
                   <=> \E i \in 1..Len(ret.warnings) :
                          ret.warnings[i] = "High AGI"
            /\ (o.line_16 = 0 /\ o.line_15 > 0)
                   <=> \E i \in 1..Len(ret.warnings) :
                          ret.warnings[i]
                              = "Tax is $0 despite positive taxable income"
            /\ o.line_15 < 0
                   => \E i \in 1..Len(ret.errors) :
                          /\ ret.errors[i].line = "Line 15"
                          /\ ret.errors[i].error_type = "logic"
                          /\ ret.errors[i].severity = "critical"

\* a consistent record with an AGI of 1,500,000: a warning, and passed
C24_Witness ==
    /\ pc = "done" /\ fn = "verify_form_1040"
    /\ arg.outputs.line_11 = 150000000
    /\ ret.warnings = <<"High AGI">>
    /\ ret.errors = <<>>
    /\ ret.passed

-----------------------------------------------------------------------------
(* The short-circuit of ScheduleSEAgent.process, under SpecUnits.          *)

\* C27: when ScheduleSEAgent.process (citations enabled) is given
\* 0 < net profit <= 400, the output record it returns carries the
\* "Schedule SE" citation that explains the threshold.
C27_ShortCircuitCarriesCitation ==
    (/\ pc = "done" /\ fn = "ScheduleSEAgent.process"
     /\ agent.enable_citations
     /\ arg.net_profit_loss > 0 /\ arg.net_profit_loss <= 40000)
        => "Schedule SE" \in DOMAIN ret.out.citations

-----------------------------------------------------------------------------
(* The documented example of calculate_tax, under SpecTools.               *)

\* C26: calculate_tax(50000, "single") returns 6624.0.
C26_DocumentedExample ==
    (/\ pc = "done" /\ fn = "calculate_tax"
     /\ arg.taxable_income = 5000000 /\ arg.filing_status = "single")
        => ret = Ret(662400)

-----------------------------------------------------------------------------
(* Properties of the validation, the citations and the stored results of   *)
(* process_tax_return and verify_results, under Spec.                      *)

\* C21: a call with a negative wage, withholding, interest or business
\* amount fails on that amount before any schedule unit or the main return
\* unit runs: it ends with an error other than the one the same record gets
\* with the amount made non-negative, no unit ran, no line of an output is
\* returned and nothing is stored.
C21_NegativeAmountRejected ==
    (pc = "returned" /\ HasNegativeAmount(arg)) =>
        /\ ret.err # "none"
        /\ ret.units = <<>>
        /\ ret.out = Form1040Outputs
        /\ ~processor.results.stored
        /\ ret.err # ParseInputs(NonNegative(arg)).err

\* the entries of a unit's citation mapping are entries of the mapping m
CitationsWithin(unit_outputs, m) ==
    unit_outputs.present =>
        \A l \in DOMAIN unit_outputs.citations :
            l \in DOMAIN m /\ m[l] = unit_outputs.citations[l]

\* C22: every call returns a Form 1040 output whose citation mapping holds
\* the main return unit's entries and the entries of each of Schedule B,
\* Schedule C and Schedule SE that ran in the call.
C22_CitationsOfEveryUnit ==
    pc = "returned" =>
        /\ ret.err = "none"
        /\ "Line 24" \in DOMAIN ret.out.citations
        /\ CitationsWithin(processor.results.schedule_b, ret.out.citations)
        /\ CitationsWithin(processor.results.schedule_c, ret.out.citations)
        /\ CitationsWithin(processor.results.schedule_se, ret.out.citations)

\* C28: for an input with non-negative amounts every call returns a
\* Form 1040 output with line_15 >= 0, 0 <= line_19 <= line_16,
\* line_24 >= 0, line_34 >= 0 and line_37 >= 0.
C28_ReturnedLinesNonNegative ==
    (pc = "returned" /\ ~HasNegativeAmount(arg)) =>
        /\ ret.err = "none"
        /\ ret.out.line_15 >= 0
        /\ 0 <= ret.out.line_19 /\ ret.out.line_19 <= ret.out.line_16
        /\ ret.out.line_24 >= 0
        /\ ret.out.line_34 >= 0
        /\ ret.out.line_37 >= 0

\* C29: every call returns a Form 1040 output whose citation mapping has a
\* "Line 34" entry exactly when line_34 > 0 and a "Line 37" entry exactly
\* when line_34 = 0.
C29_RefundCitationsAgree ==
    pc = "returned" =>
        /\ ret.err = "none"
        /\ "Line 34" \in DOMAIN ret.out.citations <=> ret.out.line_34 > 0
        /\ "Line 37" \in DOMAIN ret.out.citations <=> ret.out.line_34 = 0

====
